---- MODULE Spec2Model ----
(***************************************************************************)
(* TrendQuest: the data-acquisition-and-cache subsystem, the strategy      *)
(* registry and the stock pools.                                            *)
(*                                                                         *)
(*   scene "sync"   utils/data_sync.py    DataSyncService: batches of      *)
(*                  fetch tasks under an asyncio.Semaphore, with retries   *)
(*                  and a parquet file cache.                               *)
(*                  SpecAll adds sync_all_data, which runs the batch of     *)
(*                  the caller's symbols and then the batch of one index,   *)
(*                  on a status that is fresh or loaded from an earlier run.*)
(*                                                                         *)
(*   scene "dup"    the same service built with one more semaphore slot    *)
(*                  (SpecDup), for symbol lists that name a symbol twice.   *)
(*                                                                         *)
(*   scene "pair"   the same service run twice from one cache state and    *)
(*                  against one provider behaviour, with and without a      *)
(*                  symbol that fails on all attempts (SpecPair).           *)
(*                                                                         *)
(*   scene "cache"  utils/cache_manager.py  CacheManager (set, get, delete, *)
(*                  the cleanup cycle) and engine/data_handler.py           *)
(*                  DataHandler.fetch_stock_data, which reads and fills it. *)
(*                  CacheManager.current_time is assigned once, in          *)
(*                  __init__, and nothing in the program advances it:       *)
(*                  an entry is expired when it was set with a negative     *)
(*                  ttl, the cleanup cycle runs when the manager was built  *)
(*                  with a negative cleanup interval.                       *)
(*                  SpecCache starts the manager over the cache directory  *)
(*                  of an earlier run as well as over an empty one.         *)
(*                                                                         *)
(*   scene "loader" engine/data_loader.py  DataLoader.load_stock_data: an   *)
(*                  in-memory cache before a chain of three providers.      *)
(*                                                                         *)
(*   scene "factory" strategies/strategy_factory.py  StrategyFactory: the  *)
(*                  registry of strategy classes (SpecFactory).             *)
(*                                                                         *)
(*   scene "pools"  stock_pool_manager.py  StockPoolManager: the pools and *)
(*                  the file they are saved to (SpecPools).                 *)
(*                                                                         *)
(* SpecClear is SpecCache with CacheManager.clear; SpecLive is the sync    *)
(* scene under weak fairness of the event loop.                             *)
(*                                                                         *)
(* The components share no state; a behaviour exercises one of them, which *)
(* Init chooses (scene).                                                    *)
(***************************************************************************)
EXTENDS Integers, Sequences, FiniteSets, TLC

VARIABLES
    scene,        \* the component this behaviour exercises
    files,        \* DataSyncService: stock_data_dir, one parquet file per symbol
    sync_status,  \* DataSyncService.sync_status: sync_count, errors
    batch,        \* the sync_stock_data call: its position, symbols, results,
                  \* errors, the batches started so far, the sync_all_data
                  \* call it belongs to
    tasks,        \* the batch's tasks, in the order of batch.symbols
    sem,          \* asyncio.Semaphore(max_concurrent): its free slots
    running,      \* the task the event loop is running (0: none): asyncio tasks
                  \* give up the thread only at a suspension point
    pair,         \* scene "pair": the run, the failing symbol, the cache state
                  \* both runs start from, what the provider and the disk
                  \* did so far, the outcome of the first run
    cm,           \* CacheManager: index, payload files, whether the index
                  \* file is up to date, last_cleanup, the constructor arguments
    loader,       \* DataLoader.cache
    strategy_map, \* StrategyFactory._strategy_map, in insertion order
    pool_mgr,     \* StockPoolManager: pools, and the pools the file holds
    obs           \* the last call made on the cache, the handler or the
                  \* loader: its arguments, what it returned, what its
                  \* lookup met, and the index its cleanup cycle swept

syncVars == <<files, sync_status, batch, tasks, sem, running>>
vars == <<scene, files, sync_status, batch, tasks, sem, running, pair, cm, loader,
          strategy_map, pool_mgr, obs>>

----------------------------------------------------------------------------
(* Bounds of the model. *)

\* DataSyncService(max_retries=...): attempts per symbol
max_retries == 2
\* DataSyncService(max_concurrent=...): the semaphore's slots
max_concurrent == 1
\* longest symbol list of a batch
MaxSymbols == 2
\* batches run on one DataSyncService
MaxBatches == 1
\* calls made on one CacheManager, directly or through DataHandler
MaxCalls == 2

Symbols == {"000001", "600000"}
\* line 333: the index sync_all_data fetches after the caller's symbols
IndexSymbol == "000300"
AllSymbols == Symbols \cup {IndexSymbol}
\* a price series is a token: the one the cache files of an earlier run hold,
\* the one the provider returns now
CachedSeries == {1}
ProviderSeries == {2}
ErrMsgs == {"PermissionError"}

\* what ak.stock_zh_a_hist does in one call of _fetch_from_api
Responses == {"network_error", "unknown_symbol", "empty", "malformed", "ok"}
\* the failures no retry can cure
Permanent == {"unknown_symbol", "malformed"}
\* what df.to_parquet(cache_file) does: written; raised and left the file as
\* it was; raised and left a truncated file
WriteOutcomes == {"written", "failed", "truncated"}

\* the scenes that run DataSyncService
SyncScenes == {"sync", "pair", "dup"}

\* the slots of the service's semaphore: scene "dup" builds the service with
\* one slot more, DataSyncService(max_concurrent=max_concurrent + 1)
Slots == IF scene = "dup" THEN max_concurrent + 1 ELSE max_concurrent

SymbolLists == UNION {[1..n -> Symbols] : n \in 0..MaxSymbols}

----------------------------------------------------------------------------
(* DataSyncService: the cache files. *)

\* a file of stock_data_dir: absent; present, unexpired and readable (fresh);
\* present and unexpired but unreadable (corrupt); present and expired
NoFile == [st |-> "none", df |-> 0]

\* the cache check left out: every lookup misses
CacheLookup_Never(f) == 0

\* lines 186-190: the cached series, or 0 when the lookup misses
CacheLookup(f) == IF f.st = "fresh" THEN f.df ELSE 0

----------------------------------------------------------------------------
(* DataSyncService: one task, _fetch_stock_data_with_semaphore.            *)

\* a task: its position in the code, the loop variable attempt, the series
\* in hand (df), what it returned or raised (res, val, msg), and the history
\* of its run inside _fetch_stock_data, forgotten when it leaves: the
\* provider calls made (calls), whether a retry delay has passed since the
\* last of them (waited), the first series a provider call yielded
\* (yielded), whether the last provider call met a permanent failure
\* (lastPerm), what the cache check found on disk (looked: "hit" a present,
\* unexpired, readable file; "unreadable" a present, unexpired file that
\* cannot be read; "miss" no file or an expired one)
NewTask ==
    [pc |-> "created", attempt |-> 0, df |-> 0, res |-> "pending", val |-> 0,
     msg |-> "", calls |-> 0, waited |-> FALSE, yielded |-> 0,
     lastPerm |-> FALSE, looked |-> ""]

OnDisk(f) ==
    CASE f.st = "fresh" -> "hit"
      [] f.st = "corrupt" -> "unreadable"
      [] OTHER -> "miss"

\* the positions inside _fetch_stock_data: cache check, provider call, cache
\* write, retry delay, the return statement
Inside == {"check", "fetch", "save", "sleep", "return"}

InFlight == {i \in DOMAIN tasks : tasks[i].pc \in Inside}

\* a semaphore that never blocks
CanAcquire_NoLimit == TRUE

\* asyncio.Semaphore.acquire returns at once while a slot is free
CanAcquire == sem > 0

\* the task reaches a return statement of _fetch_stock_data, or raises
Finish(i, res, val, msg, t) ==
    /\ tasks' = [tasks EXCEPT ![i] = [t EXCEPT !.pc = "return", !.res = res,
                                               !.val = val, !.msg = msg,
                                               !.df = 0]]
    /\ UNCHANGED <<sem, running>>

\* line 172: async with semaphore. The event loop starts the tasks in the
\* order of their creation and the semaphore wakes its waiters first in,
\* first out.
Acquire(i) ==
    /\ scene \in SyncScenes
    /\ i \in DOMAIN tasks
    /\ tasks[i].pc = "created"
    /\ \A j \in 1..(i - 1) : tasks[j].pc # "created"
    /\ running = 0
    /\ CanAcquire
    /\ sem' = sem - 1
    /\ running' = i
    /\ tasks' = [tasks EXCEPT ![i].pc = "check"]
    /\ UNCHANGED <<scene, files, sync_status, batch>>
    /\ UNCHANGED <<cm, loader, obs, strategy_map, pool_mgr>>

\* lines 183-191: the cache check. cache_file.exists() and stat() are outside
\* every try: an OSError there (raises) ends the task by an exception.
CheckCache(i, raises, m) ==
    /\ scene \in SyncScenes
    /\ i \in DOMAIN tasks
    /\ tasks[i].pc = "check"
    /\ LET cached == CacheLookup(files[batch.symbols[i]])
           t == [tasks[i] EXCEPT !.looked = IF raises THEN @
                                            ELSE OnDisk(files[batch.symbols[i]])]
       IN  IF raises
           THEN Finish(i, "exc", 0, m, t)
           ELSE IF cached # 0
           THEN Finish(i, "df", cached, "", t)
           ELSE IF 0 < max_retries
           THEN /\ tasks' = [tasks EXCEPT ![i] = [t EXCEPT !.pc = "fetch"]]
                /\ UNCHANGED <<sem, running>>
           ELSE Finish(i, "none", 0, "", t)
    /\ UNCHANGED <<scene, files, sync_status, batch>>
    /\ UNCHANGED <<cm, loader, obs, strategy_map, pool_mgr>>

\* _fetch_from_api, lines 223-256: every failure of the provider call or of
\* the processing of its rows is caught and becomes None (0)
FetchFromApiResult(resp, d) == IF resp = "ok" THEN d ELSE 0

\* a loop that gives up at once on a failure no retry can cure
RetryAfter_FailFast(resp, attempt) ==
    resp \notin Permanent /\ attempt + 1 < max_retries

\* line 193, for attempt in range(self.max_retries): whether another attempt
\* follows a call that gave no series. What the failure was plays no part.
RetryAfter(resp, attempt) == attempt + 1 < max_retries

\* lines 193-202 and 213: one attempt. A None or empty result falls through
\* to the next iteration of the loop; after the last one the task returns None.
FetchFromApi(i, resp, d) ==
    /\ scene \in SyncScenes
    /\ i \in DOMAIN tasks
    /\ tasks[i].pc = "fetch"
    /\ LET df == FetchFromApiResult(resp, d)
           t == [tasks[i] EXCEPT !.calls = @ + 1,
                                 !.lastPerm = resp \in Permanent,
                                 !.waited = FALSE,
                                 !.yielded = IF @ = 0 THEN df ELSE @]
       IN  IF df # 0
           THEN /\ tasks' = [tasks EXCEPT ![i] = [t EXCEPT !.pc = "save", !.df = df]]
                /\ UNCHANGED <<sem, running>>
           ELSE IF RetryAfter(resp, t.attempt)
           THEN /\ tasks' = [tasks EXCEPT ![i] = [t EXCEPT !.attempt = @ + 1]]
                /\ UNCHANGED <<sem, running>>
           ELSE Finish(i, "none", 0, "", t)
    /\ UNCHANGED <<scene, files, sync_status, batch>>
    /\ UNCHANGED <<cm, loader, obs, strategy_map, pool_mgr>>

\* lines 203-211: df.to_parquet(cache_file) is inside the try: when it raises,
\* the except branch sleeps (not after the last attempt) and the loop goes on
SaveCache(i, w) ==
    /\ scene \in SyncScenes
    /\ i \in DOMAIN tasks
    /\ tasks[i].pc = "save"
    /\ LET t == tasks[i]
           s == batch.symbols[i]
       IN  /\ files' = [files EXCEPT ![s] =
                          CASE w = "written" -> [st |-> "fresh", df |-> t.df]
                            [] w = "truncated" -> [st |-> "corrupt", df |-> 0]
                            [] OTHER -> @]
           /\ IF w = "written"
              THEN Finish(i, "df", t.df, "", t)
              ELSE IF t.attempt < max_retries - 1
              THEN /\ tasks' = [tasks EXCEPT ![i] =
                                  [t EXCEPT !.pc = "sleep", !.df = 0, !.waited = TRUE]]
                   /\ running' = 0
                   /\ UNCHANGED sem
              ELSE Finish(i, "none", 0, "", t)
    /\ UNCHANGED <<scene, sync_status, batch>>
    /\ UNCHANGED <<cm, loader, obs, strategy_map, pool_mgr>>

\* line 210: asyncio.sleep(retry_delay) is over; `continue` starts the next
\* attempt
Wake(i) ==
    /\ scene \in SyncScenes
    /\ i \in DOMAIN tasks
    /\ tasks[i].pc = "sleep"
    /\ running = 0
    /\ running' = i
    /\ tasks' = [tasks EXCEPT ![i] = [@ EXCEPT !.pc = "fetch", !.attempt = @ + 1]]
    /\ UNCHANGED <<scene, files, sync_status, batch, sem>>
    /\ UNCHANGED <<cm, loader, obs, strategy_map, pool_mgr>>

\* a semaphore acquired and released by hand, without try/finally: a task
\* that raises keeps its slot
Return_KeepSlotOnException(i) ==
    /\ scene \in SyncScenes
    /\ i \in DOMAIN tasks
    /\ tasks[i].pc = "return"
    /\ tasks' = [tasks EXCEPT ![i] =
                   [NewTask EXCEPT !.pc = "done", !.res = tasks[i].res,
                                   !.val = tasks[i].val, !.msg = tasks[i].msg]]
    /\ sem' = IF tasks[i].res = "exc" THEN sem ELSE sem + 1
    /\ running' = 0
    /\ UNCHANGED <<scene, files, sync_status, batch>>
    /\ UNCHANGED <<cm, loader, obs, strategy_map, pool_mgr>>

\* lines 172-173: the coroutine leaves `async with semaphore` (by return or by
\* exception), which releases the slot, and the task is done
Return(i) ==
    /\ scene \in SyncScenes
    /\ i \in DOMAIN tasks
    /\ tasks[i].pc = "return"
    /\ tasks' = [tasks EXCEPT ![i] =
                   [NewTask EXCEPT !.pc = "done", !.res = tasks[i].res,
                                   !.val = tasks[i].val, !.msg = tasks[i].msg]]
    /\ sem' = sem + 1
    /\ running' = 0
    /\ UNCHANGED <<scene, files, sync_status, batch>>
    /\ UNCHANGED <<cm, loader, obs, strategy_map, pool_mgr>>

----------------------------------------------------------------------------
(* DataSyncService.sync_stock_data *)

NoResults == [s \in AllSymbols |-> 0]
NoErrors == [s \in AllSymbols |-> ""]

\* lines 119-141: the tasks are created, one per element of symbols. all
\* tells which call of sync_all_data the batch is ("" when the caller called
\* sync_stock_data itself), n counts the batches started on the service.
BeginBatch(syms, all) ==
    /\ batch' = [pc |-> "gather", symbols |-> syms, results |-> NoResults,
                 errors |-> NoErrors, n |-> batch.n + 1, all |-> all]
    /\ tasks' = [i \in 1..Len(syms) |-> NewTask]
    /\ sem' = Slots
    /\ running' = 0

\* a call of sync_stock_data by the caller
StartBatch(syms) ==
    /\ scene \in SyncScenes
    /\ batch.pc \in {"idle", "returned"}
    /\ batch.all = ""
    /\ batch.n < MaxBatches
    /\ BeginBatch(syms, "")
    /\ UNCHANGED <<scene, files, sync_status>>
    /\ UNCHANGED <<cm, loader, obs, strategy_map, pool_mgr>>

\* gather without return_exceptions: the first exception of a task is raised
\* to the caller while the other tasks are still running
GatherOutcome_Propagate(ts) ==
    IF \E i \in DOMAIN ts : ts[i].pc = "done" /\ ts[i].res = "exc" THEN "raise"
    ELSE IF \A i \in DOMAIN ts : ts[i].pc = "done" THEN "list" ELSE "pending"

\* line 143: asyncio.gather(*tasks, return_exceptions=True) waits for every
\* task and hands back results and exceptions alike
GatherOutcome(ts) ==
    IF \A i \in DOMAIN ts : ts[i].pc = "done" THEN "list" ELSE "pending"

\* a loop over the outcomes that stops at the first task that found no data
RECURSIVE Collect_StopAtNone(_, _, _, _)
Collect_StopAtNone(syms, ts, i, acc) ==
    IF i > Len(syms) \/ ts[i].res = "none" THEN acc
    ELSE LET s == syms[i]
             t == ts[i]
         IN  Collect_StopAtNone(syms, ts, i + 1,
               IF t.res = "exc"
               THEN [acc EXCEPT !.errors[s] = t.msg]
               ELSE [acc EXCEPT !.results[s] = t.val])

\* lines 145-150: zip(symbols, completed), in order
RECURSIVE Collect(_, _, _, _)
Collect(syms, ts, i, acc) ==
    IF i > Len(syms) THEN acc
    ELSE LET s == syms[i]
             t == ts[i]
         IN  Collect(syms, ts, i + 1,
               IF t.res = "exc"
               THEN [acc EXCEPT !.errors[s] = t.msg]
               ELSE IF t.res = "df"
               THEN [acc EXCEPT !.results[s] = t.val]
               ELSE acc)

\* the errors of the batch put in the place of the map
UpdateErrors_Replace(old, errs) == errs

\* lines 155-158: sync_status['errors'].update(...)
UpdateErrors(old, errs) ==
    [s \in AllSymbols |-> IF errs[s] # "" THEN errs[s] ELSE old[s]]

\* lines 143-161
Gather ==
    /\ scene \in SyncScenes
    /\ batch.pc = "gather"
    /\ running = 0
    /\ GatherOutcome(tasks) # "pending"
    /\ IF GatherOutcome(tasks) = "raise"
       THEN /\ batch' = [batch EXCEPT !.pc = "raised"]
            /\ UNCHANGED sync_status
       ELSE LET c == Collect(batch.symbols, tasks, 1,
                             [results |-> NoResults, errors |-> NoErrors])
            IN  /\ batch' = [batch EXCEPT !.pc = "returned",
                                          !.results = c.results,
                                          !.errors = c.errors]
                /\ sync_status' =
                     [sync_count |-> sync_status.sync_count + 1,
                      errors |-> UpdateErrors(sync_status.errors, c.errors)]
    /\ UNCHANGED <<scene, files, tasks, sem, running>>
    /\ UNCHANGED <<cm, loader, obs, strategy_map, pool_mgr>>

----------------------------------------------------------------------------

\* the files of the caller's symbols; no file of the index
WithIndexFile(f) == [s \in AllSymbols |-> IF s = IndexSymbol THEN NoFile ELSE f[s]]

InitFiles ==
    {WithIndexFile(f) : f \in
        [Symbols -> {NoFile} \cup
            {[st |-> st, df |-> d] : st \in {"fresh", "expired"}, d \in CachedSeries}
            \cup {[st |-> "corrupt", df |-> 0]}]}

NoStatus == [sync_count |-> 0, errors |-> NoErrors]
NoBatch == [pc |-> "idle", symbols |-> <<>>, results |-> NoResults,
            errors |-> NoErrors, n |-> 0, all |-> ""]
NoPair == [run |-> 0]

\* the components this behaviour does not exercise
NoneValue == [type |-> "NoneType", body |-> "None"]
NoCm == [index |-> <<>>]
NoLoader == <<>>
NoMap == <<>>
NoPoolMgr == [pools |-> <<>>]
NoObs == [op |-> "none", key |-> "", arg |-> NoneValue, ret |-> NoneValue,
          ok |-> FALSE, hit |-> FALSE, calls |-> 0, live |-> FALSE,
          found |-> "", n |-> 0, cleaned |-> FALSE, swept |-> <<>>,
          chain |-> <<>>, tag |-> "", stored |-> FALSE]

\* sync_all_data, lines 327-329: the batch of the caller's symbols
SyncAllData(syms) ==
    /\ scene = "sync"
    /\ batch.pc \in {"idle", "returned"}
    /\ batch.all = ""
    /\ batch.n < MaxBatches
    /\ BeginBatch(syms, "stocks")
    /\ UNCHANGED <<scene, files, sync_status>>
    /\ UNCHANGED <<cm, loader, obs, strategy_map, pool_mgr>>

\* sync_all_data, lines 332-334: then the batch of the one index
SyncIndices ==
    /\ scene = "sync"
    /\ batch.pc = "returned"
    /\ batch.all = "stocks"
    /\ BeginBatch(<<IndexSymbol>>, "indices")
    /\ UNCHANGED <<scene, files, sync_status>>
    /\ UNCHANGED <<cm, loader, obs, strategy_map, pool_mgr>>

\* sync_all_data, lines 337-339: after its two batches it counts once more
SyncAllReturn ==
    /\ scene = "sync"
    /\ batch.pc = "returned"
    /\ batch.all = "indices"
    /\ batch' = [batch EXCEPT !.all = ""]
    /\ sync_status' = [sync_status EXCEPT !.sync_count = @ + 1]
    /\ UNCHANGED <<scene, files, tasks, sem, running>>
    /\ UNCHANGED <<cm, loader, obs, strategy_map, pool_mgr>>

InitSync ==
    /\ scene = "sync"
    /\ files \in InitFiles
    /\ sync_status = NoStatus
    /\ batch = NoBatch
    /\ tasks = <<>>
    /\ sem = max_concurrent
    /\ running = 0
    /\ pair = NoPair
    /\ cm = NoCm /\ loader = NoLoader /\ obs = NoObs
    /\ strategy_map = NoMap /\ pool_mgr = NoPoolMgr

NextSync ==
    \/ \E syms \in SymbolLists : StartBatch(syms) /\ UNCHANGED pair
    \/ \E i \in 1..MaxSymbols : Acquire(i) /\ UNCHANGED pair
    \/ \E i \in 1..MaxSymbols, raises \in BOOLEAN, m \in ErrMsgs :
          CheckCache(i, raises, m) /\ UNCHANGED pair
    \/ \E i \in 1..MaxSymbols, resp \in Responses, d \in ProviderSeries :
          FetchFromApi(i, resp, d) /\ UNCHANGED pair
    \/ \E i \in 1..MaxSymbols, w \in WriteOutcomes : SaveCache(i, w) /\ UNCHANGED pair
    \/ \E i \in 1..MaxSymbols : Wake(i) /\ UNCHANGED pair
    \/ \E i \in 1..MaxSymbols : Return(i) /\ UNCHANGED pair
    \/ scene \in {"sync", "dup"} /\ Gather /\ UNCHANGED pair

\* lines 73-87: the status a service loads from sync_status.json when an
\* earlier run left one: one batch counted, one symbol in error
LoadedStatus ==
    [sync_count |-> 1, errors |-> [NoErrors EXCEPT !["000001"] = "PermissionError"]]

\* a service over an empty data directory, its status fresh or loaded
InitAll ==
    /\ scene = "sync"
    /\ files = [s \in AllSymbols |-> NoFile]
    /\ sync_status \in {NoStatus, LoadedStatus}
    /\ batch = NoBatch
    /\ tasks = <<>>
    /\ sem = max_concurrent
    /\ running = 0
    /\ pair = NoPair
    /\ cm = NoCm /\ loader = NoLoader /\ obs = NoObs
    /\ strategy_map = NoMap /\ pool_mgr = NoPoolMgr

\* a service with one slot more than max_concurrent, over an empty data
\* directory: the symbol lists of its batches may name a symbol twice
InitDup ==
    /\ scene = "dup"
    /\ files = [s \in AllSymbols |-> NoFile]
    /\ sync_status = NoStatus
    /\ batch = NoBatch
    /\ tasks = <<>>
    /\ sem = max_concurrent + 1
    /\ running = 0
    /\ pair = NoPair
    /\ cm = NoCm /\ loader = NoLoader /\ obs = NoObs
    /\ strategy_map = NoMap /\ pool_mgr = NoPoolMgr

SpecDup == InitDup /\ [][NextSync]_vars

\* a service over an empty data directory whose event loop keeps running:
\* a task that can take its next step takes it, which for a provider call
\* means that the call returns, and a retry delay ends
InitLive ==
    /\ scene = "sync"
    /\ files = [s \in AllSymbols |-> NoFile]
    /\ sync_status = NoStatus
    /\ batch = NoBatch
    /\ tasks = <<>>
    /\ sem = max_concurrent
    /\ running = 0
    /\ pair = NoPair
    /\ cm = NoCm /\ loader = NoLoader /\ obs = NoObs
    /\ strategy_map = NoMap /\ pool_mgr = NoPoolMgr

SpecLive == InitLive /\ [][NextSync]_vars /\ WF_vars(NextSync)

NextAll ==
    \/ NextSync
    \/ \E syms \in SymbolLists : SyncAllData(syms) /\ UNCHANGED pair
    \/ SyncIndices /\ UNCHANGED pair
    \/ SyncAllReturn /\ UNCHANGED pair

SpecAll == InitAll /\ [][NextAll]_vars

----------------------------------------------------------------------------
(* CacheManager (utils/cache_manager.py).                                   *)

\* line 31: the manager's clock, a fixed instant; times are in days from it
current_time == 0
\* __init__(default_ttl_days=7)
default_ttl == 7

\* the constructor arguments (max_size_mb, cleanup_interval_hours): the
\* defaults, and a small cache that cleans up at every set
Configs == {[max_size |-> 500, cleanup_interval |-> 24],
            [max_size |-> 1, cleanup_interval |-> -1]}

Kinds == {"json", "pickle", "dataframe"}

\* data_handler.py line 31: the handler's cache key for a symbol
HandlerKey(s) == "data_" \o s

Keys == {HandlerKey(s) : s \in Symbols}

\* values: their run-time type and what they hold
RawFrame == [type |-> "DataFrame", body |-> "provider columns"]
DictOfIntKeys == [type |-> "dict", body |-> "int keys"]
DictOfStrKeys == [type |-> "dict", body |-> "str keys"]
Opaque == [type |-> "object", body |-> "instance"]

\* data_handler.py lines 68-87: rename the columns, add the indicators, index by date
ProcessData(df) == [df EXCEPT !.body = "ohlcv by date"]

Values == {ProcessData(RawFrame), DictOfIntKeys, DictOfStrKeys, Opaque}

\* the ttl argument of set: omitted (None), timedelta(0), or a negative
\* timedelta
NoTtl == [given |-> FALSE, days |-> 0]
TtlArgs == {NoTtl, [given |-> TRUE, days |-> 0], [given |-> TRUE, days |-> -1]}

\* line 134: ttl or self.default_ttl (None and timedelta(0) are falsy)
EffectiveTtl(ttl) == IF ttl.given /\ ttl.days # 0 THEN ttl.days ELSE default_ttl

\* the data_type argument of set: omitted (None), or a tag
TypeArgs == {"auto", "json"}

\* what writing the payload file does: it is written; open() fails and the
\* file is left as it was; the dump fails after open() truncated the file
PayloadWrites == {"written", "failed", "partial"}

JsonTypes == {"dict", "list", "str", "int", "float", "bool"}

\* lines 109-115
DetectType(v) ==
    CASE v.type = "DataFrame" -> "dataframe"
      [] v.type \in JsonTypes -> "json"
      [] OTHER -> "pickle"

\* payload files
NoCFile == [fmt |-> "none", v |-> NoneValue]
Partial == [fmt |-> "partial", v |-> NoneValue]

\* json.dump writes the keys of an object as strings
JsonDump(v) == [fmt |-> "json", v |-> [v EXCEPT !.body = "str keys"]]
JsonLoad(f) == f.v
ToParquet(v) == [fmt |-> "parquet", v |-> v]
ReadParquet(f) == f.v
PickleDump(v) == [fmt |-> "pickle", v |-> v]
PickleLoad(f) == f.v

\* os.path.getsize
FileSize(f) ==
    IF f.fmt \in {"none", "partial"} THEN 0
    ELSE IF f.v.type = "DataFrame" THEN 2 ELSE 1

NoEntry == [type |-> "none", created_at |-> 0, expires_at |-> 0, size |-> 0]

\* the manager built over an empty cache directory
NewCm(cfg) ==
    [index |-> [k \in Keys |-> NoEntry],
     order |-> <<>>,
     files |-> [k \in Keys |-> [t \in Kinds |-> NoCFile]],
     saved |-> TRUE,
     calls |-> 0,
     last_cleanup |-> current_time,
     max_size |-> cfg.max_size,
     cleanup_interval |-> cfg.cleanup_interval]

\* lines 76-82: the index file is rewritten, or the error is swallowed;
\* saved: the index file holds the index as it is in memory
SaveIndex(c, saves) == [c EXCEPT !.saved = saves]

\* lines 202-219 without the save: unlink the file of the recorded kind,
\* drop the index entry
Unlink(c, key) ==
    IF c.index[key] = NoEntry THEN c
    ELSE [c EXCEPT !.files[key][c.index[key].type] = NoCFile,
                   !.index[key] = NoEntry,
                   !.order = SelectSeq(c.order, LAMBDA k : k # key)]

Expired(c, key) ==
    c.index[key] # NoEntry /\ c.index[key].expires_at < current_time

\* a sweep that deletes every key, expired or not
RECURSIVE CleanExpired_All(_, _)
CleanExpired_All(c, keys) ==
    IF keys = <<>> THEN c ELSE CleanExpired_All(Unlink(c, Head(keys)), Tail(keys))

\* lines 257-263: delete every expired key
RECURSIVE CleanExpired(_, _)
CleanExpired(c, keys) ==
    IF keys = <<>> THEN c
    ELSE CleanExpired(IF Expired(c, Head(keys)) THEN Unlink(c, Head(keys)) ELSE c,
                      Tail(keys))

\* lines 293-300
RECURSIVE SumSizes(_, _)
SumSizes(c, keys) ==
    IF keys = <<>> THEN 0 ELSE c.index[Head(keys)].size + SumSizes(c, Tail(keys))

get_cache_size(c) == SumSizes(c, c.order)

\* the first of the entries created last
OldestKey_Newest(c) ==
    LET i == CHOOSE i \in 1..Len(c.order) :
                 \A j \in 1..Len(c.order) :
                     \/ c.index[c.order[j]].created_at < c.index[c.order[i]].created_at
                     \/ (c.index[c.order[j]].created_at = c.index[c.order[i]].created_at
                         /\ j >= i)
    IN  c.order[i]

\* lines 282-285: min() over the keys in dict order: the first of the oldest
OldestKey(c) ==
    LET i == CHOOSE i \in 1..Len(c.order) :
                 \A j \in 1..Len(c.order) :
                     \/ c.index[c.order[j]].created_at > c.index[c.order[i]].created_at
                     \/ (c.index[c.order[j]].created_at = c.index[c.order[i]].created_at
                         /\ j >= i)
    IN  c.order[i]

\* an eviction that removes one entry at most
EvictOldest_Once(c) ==
    IF get_cache_size(c) > c.max_size /\ c.order # <<>>
    THEN Unlink(c, OldestKey(c))
    ELSE c

\* lines 281-286
RECURSIVE EvictOldest(_)
EvictOldest(c) ==
    IF get_cache_size(c) > c.max_size /\ c.order # <<>>
    THEN EvictOldest(Unlink(c, OldestKey(c)))
    ELSE c

\* a cleanup check that finds the cycle due at every set
CleanupDue_Always(c) == TRUE

\* line 276
CleanupDue(c) == current_time - c.last_cleanup > c.cleanup_interval

\* lines 272-291
CheckCleanup(c) ==
    IF CleanupDue(c)
    THEN [EvictOldest(CleanExpired(c, c.order)) EXCEPT !.last_cleanup = current_time]
    ELSE c

\* the index a due cleanup cycle holds when its eviction loop starts (line
\* 281), after the sweep of the expired entries
Swept(c) == IF CleanupDue(c) THEN CleanExpired(c, c.order).index ELSE <<>>

\* lines 117-128: the payload file is written at the path of the kind
Encode(kind, v) ==
    CASE kind = "json" -> JsonDump(v)
      [] kind = "dataframe" -> ToParquet(v)
      [] OTHER -> PickleDump(v)

WritePayload(c, key, kind, v, w) ==
    IF kind = "dataframe" /\ v.type # "DataFrame"
    THEN [ok |-> FALSE, c |-> c]               \* no to_parquet: nothing touched
    ELSE IF w = "failed"
    THEN [ok |-> FALSE, c |-> c]
    ELSE IF w = "partial" \/ (kind = "json" /\ v.type \notin JsonTypes)
    THEN [ok |-> FALSE, c |-> [c EXCEPT !.files[key][kind] = Partial]]
    ELSE [ok |-> TRUE, c |-> [c EXCEPT !.files[key][kind] = Encode(kind, v)]]

\* a set that records the index entry before it writes the payload file
SetIn_IndexFirst(c, key, v, ttl, data_type, w, saves) ==
    LET kind == IF data_type = "auto" THEN DetectType(v) ELSE data_type
        entry == [type |-> kind,
                  created_at |-> current_time,
                  expires_at |-> current_time + EffectiveTtl(ttl),
                  size |-> 0]
        c1 == [c EXCEPT !.index[key] = entry,
                        !.order = IF c.index[key] = NoEntry
                                  THEN Append(c.order, key) ELSE c.order]
        wp == WritePayload(c1, key, kind, v, w)
        c2 == [wp.c EXCEPT !.index[key].size = FileSize(wp.c.files[key][kind])]
    IN  IF wp.ok
        THEN [ret |-> TRUE, c |-> SaveIndex(CheckCleanup(SaveIndex(c2, saves)), saves),
              cleaned |-> CleanupDue(c2), swept |-> Swept(c2)]
        ELSE [ret |-> FALSE, c |-> wp.c, cleaned |-> FALSE, swept |-> <<>>]

\* lines 107-149: set, with _save_index and _check_cleanup
SetIn(c, key, v, ttl, data_type, w, saves) ==
    LET kind == IF data_type = "auto" THEN DetectType(v) ELSE data_type
        wp == WritePayload(c, key, kind, v, w)
        entry == [type |-> kind,
                  created_at |-> current_time,
                  expires_at |-> current_time + EffectiveTtl(ttl),
                  size |-> FileSize(wp.c.files[key][kind])]
        c1 == [wp.c EXCEPT !.index[key] = entry,
                           !.order = IF c.index[key] = NoEntry
                                     THEN Append(c.order, key) ELSE c.order]
    IN  IF wp.ok
        THEN [ret |-> TRUE, c |-> SaveIndex(CheckCleanup(SaveIndex(c1, saves)), saves),
              cleaned |-> CleanupDue(c1), swept |-> Swept(c1)]
        ELSE [ret |-> FALSE, c |-> wp.c, cleaned |-> FALSE, swept |-> <<>>]

\* lines 176-186: read the file at the path of the recorded kind
Load(kind, f) ==
    CASE kind = "json" /\ f.fmt = "json" -> JsonLoad(f)
      [] kind = "dataframe" /\ f.fmt = "parquet" -> ReadParquet(f)
      [] kind = "pickle" /\ f.fmt = "pickle" -> PickleLoad(f)
      [] OTHER -> NoneValue                     \* the read raises: None

\* a present, unexpired and readable entry
Usable(c, key) ==
    /\ c.index[key] # NoEntry
    /\ c.index[key].expires_at >= current_time
    /\ c.files[key][c.index[key].type].fmt \notin {"none", "partial"}

\* a lookup that reports an expired entry absent without deleting it
GetIn_KeepExpired(c, key, saves) ==
    IF c.index[key] # NoEntry /\ ~Expired(c, key)
    THEN [ret |-> Load(c.index[key].type, c.files[key][c.index[key].type]),
          c |-> c]
    ELSE [ret |-> NoneValue, c |-> c]

\* a lookup that deletes an entry whose payload file cannot be read
GetIn_DropUnreadable(c, key, saves) ==
    IF c.index[key] = NoEntry THEN [ret |-> NoneValue, c |-> c]
    ELSE IF Expired(c, key) \/ ~Usable(c, key)
    THEN [ret |-> NoneValue, c |-> SaveIndex(Unlink(c, key), saves)]
    ELSE [ret |-> Load(c.index[key].type, c.files[key][c.index[key].type]),
          c |-> c]

\* a lookup that refreshes the entry it reads, as an LRU cache would
GetIn_Touch(c, key, saves) ==
    IF c.index[key] = NoEntry THEN [ret |-> NoneValue, c |-> c]
    ELSE IF Expired(c, key)
    THEN [ret |-> NoneValue, c |-> SaveIndex(Unlink(c, key), saves)]
    ELSE [ret |-> Load(c.index[key].type, c.files[key][c.index[key].type]),
          c |-> IF Usable(c, key)
                THEN [c EXCEPT !.index[key].created_at = current_time]
                ELSE c]

\* lines 161-190: get, with the delete of an expired entry
GetIn(c, key, saves) ==
    IF c.index[key] = NoEntry THEN [ret |-> NoneValue, c |-> c]
    ELSE IF Expired(c, key)
    THEN [ret |-> NoneValue, c |-> SaveIndex(Unlink(c, key), saves)]
    ELSE [ret |-> Load(c.index[key].type, c.files[key][c.index[key].type]), c |-> c]

\* what a lookup of the key meets (lines 163-186)
Found(c, key) ==
    IF c.index[key] = NoEntry THEN "absent"
    ELSE IF Expired(c, key) THEN "expired"
    ELSE IF Usable(c, key) THEN "usable"
    ELSE IF c.files[key][c.index[key].type] = NoCFile THEN "missing"
    ELSE "unreadable"

\* one more call made on the manager
Called(c) == [c EXCEPT !.calls = c.calls + 1]

Set(key, v, ttl, data_type, w, saves) ==
    /\ scene = "cache"
    /\ cm.calls < MaxCalls
    /\ LET r == SetIn(cm, key, v, ttl, data_type, w, saves)
       IN  /\ cm' = Called(r.c)
           /\ obs' = [NoObs EXCEPT !.op = "set", !.key = key, !.arg = v,
                                   !.ok = r.ret,
                                   !.live = (EffectiveTtl(ttl) >= 0),
                                   !.cleaned = r.cleaned, !.swept = r.swept,
                                   !.tag = data_type, !.stored = r.ret]
    /\ UNCHANGED <<scene, loader, syncVars, pair, strategy_map, pool_mgr>>

Get(key, saves) ==
    /\ scene = "cache"
    /\ cm.calls < MaxCalls
    /\ LET r == GetIn(cm, key, saves)
       IN  /\ cm' = Called(r.c)
           /\ obs' = [NoObs EXCEPT !.op = "get", !.key = key, !.ret = r.ret,
                                   !.hit = Usable(cm, key),
                                   !.found = Found(cm, key)]
    /\ UNCHANGED <<scene, loader, syncVars, pair, strategy_map, pool_mgr>>

\* a delete that fails, keeping the entry, when the payload file is missing
Delete_NeedsFile(key, saves) ==
    LET gone == cm.index[key] # NoEntry /\ Found(cm, key) # "missing" IN
    /\ scene = "cache"
    /\ cm.calls < MaxCalls
    /\ cm' = Called(IF gone THEN SaveIndex(Unlink(cm, key), saves) ELSE cm)
    /\ obs' = [NoObs EXCEPT !.op = "delete", !.key = key, !.ok = gone,
                            !.found = Found(cm, key)]
    /\ UNCHANGED <<scene, loader, syncVars, pair, strategy_map, pool_mgr>>

\* lines 192-223
Delete(key, saves) ==
    /\ scene = "cache"
    /\ cm.calls < MaxCalls
    /\ cm' = Called(IF cm.index[key] = NoEntry THEN cm
                    ELSE SaveIndex(Unlink(cm, key), saves))
    /\ obs' = [NoObs EXCEPT !.op = "delete", !.key = key,
                            !.ok = (cm.index[key] # NoEntry),
                            !.found = Found(cm, key)]
    /\ UNCHANGED <<scene, loader, syncVars, pair, strategy_map, pool_mgr>>

\* the keys of the index that are expired
ExpiredKeys(c) == {k \in Keys : Expired(c, k)}

\* lines 250-270: the public clean_expired_cache; it returns the count
CleanExpiredCache(saves) ==
    /\ scene = "cache"
    /\ cm.calls < MaxCalls
    /\ cm' = Called(IF ExpiredKeys(cm) = {} THEN cm
                    ELSE SaveIndex(CleanExpired(cm, cm.order), saves))
    /\ obs' = [NoObs EXCEPT !.op = "clean", !.ok = TRUE,
                            !.n = Cardinality(ExpiredKeys(cm))]
    /\ UNCHANGED <<scene, loader, syncVars, pair, strategy_map, pool_mgr>>

----------------------------------------------------------------------------
(* DataHandler.fetch_stock_data (engine/data_handler.py lines 22-66): no    *)
(* await in its body, so one call is one step.                               *)

\* what ak.stock_zh_a_hist does: it raises, returns an empty frame, returns
\* a frame without the expected columns, returns a frame
HandlerResponses == {"error", "empty", "malformed", "ok"}

FetchStockData(s, resp, w, saves) ==
    /\ scene = "cache"
    /\ cm.calls < MaxCalls
    /\ LET key == HandlerKey(s)
           g == GetIn(cm, key, saves)
           df == ProcessData(RawFrame)
           st == SetIn(g.c, key, df, NoTtl, "auto", w, saves)
       IN  IF g.ret # NoneValue
           THEN /\ cm' = Called(g.c)
                /\ obs' = [NoObs EXCEPT !.op = "fetch", !.key = key, !.ret = g.ret,
                                        !.ok = TRUE, !.hit = Usable(cm, key)]
           ELSE IF resp # "ok"
           THEN /\ cm' = Called(g.c)
                /\ obs' = [NoObs EXCEPT !.op = "fetch", !.key = key, !.calls = 1,
                                        !.hit = Usable(cm, key)]
           ELSE /\ cm' = Called(st.c)
                /\ obs' = [NoObs EXCEPT !.op = "fetch", !.key = key, !.calls = 1,
                                        !.arg = df, !.ret = df, !.ok = TRUE,
                                        !.hit = Usable(cm, key),
                                        !.cleaned = st.cleaned, !.swept = st.swept,
                                        !.tag = "auto", !.stored = st.ret]
    /\ UNCHANGED <<scene, loader, syncVars, pair, strategy_map, pool_mgr>>

InitCache ==
    /\ scene = "cache"
    /\ \E cfg \in Configs : cm = NewCm(cfg)
    /\ loader = NoLoader
    /\ obs = NoObs
    /\ files = [s \in AllSymbols |-> NoFile]
    /\ sync_status = NoStatus
    /\ batch = NoBatch
    /\ tasks = <<>>
    /\ sem = max_concurrent
    /\ running = 0
    /\ pair = NoPair
    /\ strategy_map = NoMap /\ pool_mgr = NoPoolMgr

NextCache ==
    \/ \E key \in Keys, v \in Values, ttl \in TtlArgs, ty \in TypeArgs,
         w \in PayloadWrites, saves \in BOOLEAN : Set(key, v, ttl, ty, w, saves)
    \/ \E key \in Keys, saves \in BOOLEAN : Get(key, saves)
    \/ \E key \in Keys, saves \in BOOLEAN : Delete(key, saves)
    \/ \E saves \in BOOLEAN : CleanExpiredCache(saves)
    \/ \E s \in Symbols, resp \in HandlerResponses, w \in PayloadWrites,
         saves \in BOOLEAN : FetchStockData(s, resp, w, saves)

----------------------------------------------------------------------------
(* CacheManager built over the cache directory of an earlier run: __init__ *)
(* loads the index file it finds (line 45). The directory is empty, or it   *)
(* holds one entry written two days before current_time, with its payload  *)
(* file or with the payload file gone.                                      *)

OldKey == HandlerKey("000001")
OldEntry == [type |-> "json", created_at |-> -2, expires_at |-> 5, size |-> 1]

Leftovers == {"empty", "entry", "entry without file"}

LoadedCm(cfg, left) ==
    IF left = "empty" THEN NewCm(cfg)
    ELSE [NewCm(cfg) EXCEPT
            !.index[OldKey] = OldEntry,
            !.order = <<OldKey>>,
            !.files[OldKey]["json"] =
                IF left = "entry" THEN JsonDump(DictOfStrKeys) ELSE NoCFile]

InitManager ==
    /\ scene = "cache"
    /\ \E cfg \in Configs, left \in Leftovers : cm = LoadedCm(cfg, left)
    /\ loader = NoLoader
    /\ obs = NoObs
    /\ files = [s \in AllSymbols |-> NoFile]
    /\ sync_status = NoStatus
    /\ batch = NoBatch
    /\ tasks = <<>>
    /\ sem = max_concurrent
    /\ running = 0
    /\ pair = NoPair
    /\ strategy_map = NoMap /\ pool_mgr = NoPoolMgr

SpecCache == InitManager /\ [][NextCache]_vars

\* lines 224-248: clear. shutil.rmtree(cache_dir) removes the payload files
\* and the index file one by one and raises at the first it cannot remove:
\* gone are the keys whose files it had removed by then, idx tells whether
\* the index file was among them; dirs tells whether _ensure_cache_dirs
\* could make the directories again. The index is emptied only after both;
\* whether _save_index then writes the file or not, a manager built over
\* the directory loads an empty index (lines 68-71).
Clear(gone, raises, idx, dirs) ==
    LET ok == ~raises /\ dirs
        c1 == [cm EXCEPT !.files = [k \in Keys |->
                            IF k \in gone THEN [t \in Kinds |-> NoCFile]
                            ELSE cm.files[k]]]
    IN
    /\ scene = "cache"
    /\ cm.calls < MaxCalls
    /\ ~raises => (gone = Keys /\ idx)
    /\ raises => dirs
    /\ cm' = Called(IF ok
                    THEN [c1 EXCEPT !.index = [k \in Keys |-> NoEntry],
                                    !.order = <<>>,
                                    !.saved = TRUE]
                    ELSE [c1 EXCEPT !.saved =
                             IF idx THEN \A k \in Keys : cm.index[k] = NoEntry
                             ELSE cm.saved])
    /\ obs' = [NoObs EXCEPT !.op = "clear", !.ok = ok]
    /\ UNCHANGED <<scene, loader, syncVars, pair, strategy_map, pool_mgr>>

NextClear ==
    \/ NextCache
    \/ \E gone \in SUBSET Keys, raises \in BOOLEAN, idx \in BOOLEAN, dirs \in BOOLEAN :
          Clear(gone, raises, idx, dirs)

\* the manager with clear among its operations
SpecClear == InitManager /\ [][NextClear]_vars

----------------------------------------------------------------------------
(* DataLoader (engine/data_loader.py). A symbol is the sequence of the      *)
(* pieces of its text: an exchange prefix if it has one, the three leading  *)
(* digits, the rest.                                                         *)

LoaderSymbols == {<<"600", "000">>, <<"sh", "600", "000">>, <<"900", "901">>}

\* lines 28-32
exchange_map ==
    [p \in {"600", "601", "603", "605", "000", "001", "002", "003", "300", "301"} |->
        IF p \in {"600", "601", "603", "605"} THEN "sh" ELSE "sz"]

\* str.replace(piece, '')
Replace(symbol, piece) == SelectSeq(symbol, LAMBDA x : x # piece)

Upper(exchange) == IF exchange = "sh" THEN "SH" ELSE "SZ"

\* a resolver that looks up the leading piece of the symbol as it was given
format_stock_code_Raw(symbol) ==
    LET prefix == IF symbol = <<>> THEN "" ELSE symbol[1]
    IN  IF prefix \in DOMAIN exchange_map
        THEN [ok |-> TRUE,
              bs |-> <<exchange_map[prefix], ".">> \o symbol,
              ts |-> symbol \o <<".", Upper(exchange_map[prefix])>>,
              ak |-> symbol]
        ELSE [ok |-> FALSE, bs |-> <<>>, ts |-> <<>>, ak |-> <<>>]

\* lines 38-62
format_stock_code(symbol) ==
    LET clean_symbol == Replace(Replace(symbol, "sh"), "sz")
        prefix == IF clean_symbol = <<>> THEN "" ELSE clean_symbol[1]
    IN  IF prefix \in DOMAIN exchange_map
        THEN [ok |-> TRUE,
              bs |-> <<exchange_map[prefix], ".">> \o clean_symbol,
              ts |-> clean_symbol \o <<".", Upper(exchange_map[prefix])>>,
              ak |-> clean_symbol]
        ELSE [ok |-> FALSE, bs |-> <<>>, ts |-> <<>>, ak |-> <<>>]

Providers == <<"baostock", "tushare", "akshare">>

\* what the three providers do in one call: TRUE, the provider returns rows
ProviderAnswers == [1..3 -> BOOLEAN]

ProviderFrame(p) == [type |-> "DataFrame", body |-> p]

\* line 105: every day of the range, gaps filled forward
Reindex(df) == [df EXCEPT !.type = "DataFrame daily"]

\* a chain that asks every provider, whatever the earlier ones returned
CallChain_AskAll(ans) == [p \in 1..3 |-> [provider |-> Providers[p], rows |-> ans[p]]]

\* lines 89-100: the calls load_stock_data makes, in order, each with
\* whether it returned rows: baostock; tushare if df is None; akshare if df
\* is still None
CallChain(ans) ==
    LET c1 == <<[provider |-> "baostock", rows |-> ans[1]]>>
        c2 == IF ~ans[1]
              THEN Append(c1, [provider |-> "tushare", rows |-> ans[2]])
              ELSE c1
        c3 == IF ~ans[1] /\ ~ans[2]
              THEN Append(c2, [provider |-> "akshare", rows |-> ans[3]])
              ELSE c2
    IN  c3

\* a chain that keeps the rows of the last provider that has any
FirstAnswer_Last(ans) ==
    IF \E p \in 1..3 : ans[p]
    THEN CHOOSE p \in 1..3 : ans[p] /\ \A q \in (p + 1)..3 : ~ans[q]
    ELSE 0

\* a chain that falls back on the last provider's frame when all failed
FirstAnswer_Default(ans) ==
    IF \E p \in 1..3 : ans[p]
    THEN CHOOSE p \in 1..3 : ans[p] /\ \A q \in 1..(p - 1) : ~ans[q]
    ELSE 3

\* lines 89-100: the first provider of the chain that returns rows
FirstAnswer(ans) ==
    IF \E p \in 1..3 : ans[p]
    THEN CHOOSE p \in 1..3 : ans[p] /\ \A q \in 1..(p - 1) : ~ans[q]
    ELSE 0

\* lines 80-117
LoadStockData(symbol, ans, reindexes) ==
    /\ scene = "loader"
    /\ LET code == format_stock_code(symbol)
           p == FirstAnswer(ans)
           o == [NoObs EXCEPT !.op = "load", !.key = symbol,
                              !.hit = (loader[symbol] # NoneValue)]
       IN  IF loader[symbol] # NoneValue
           THEN /\ obs' = [o EXCEPT !.ret = loader[symbol], !.ok = TRUE]
                /\ UNCHANGED loader
           ELSE IF ~code.ok
           THEN /\ obs' = o
                /\ UNCHANGED loader
           ELSE IF p = 0
           THEN /\ obs' = [o EXCEPT !.calls = 3, !.chain = CallChain(ans)]
                /\ UNCHANGED loader
           ELSE IF ~reindexes
           THEN /\ obs' = [o EXCEPT !.calls = p, !.arg = ProviderFrame(Providers[p]),
                                    !.chain = CallChain(ans)]
                /\ UNCHANGED loader
           ELSE /\ obs' = [o EXCEPT !.calls = p, !.arg = ProviderFrame(Providers[p]),
                                    !.ret = Reindex(ProviderFrame(Providers[p])),
                                    !.ok = TRUE, !.chain = CallChain(ans)]
                /\ loader' = [loader EXCEPT ![symbol] = Reindex(ProviderFrame(Providers[p]))]
    /\ UNCHANGED <<scene, cm, syncVars, pair, strategy_map, pool_mgr>>

InitLoader ==
    /\ scene = "loader"
    /\ loader = [s \in LoaderSymbols |-> NoneValue]
    /\ cm = NoCm
    /\ obs = NoObs
    /\ files = [s \in AllSymbols |-> NoFile]
    /\ sync_status = NoStatus
    /\ batch = NoBatch
    /\ tasks = <<>>
    /\ sem = max_concurrent
    /\ running = 0
    /\ pair = NoPair
    /\ strategy_map = NoMap /\ pool_mgr = NoPoolMgr

NextLoader ==
    \E symbol \in LoaderSymbols, ans \in ProviderAnswers, reindexes \in BOOLEAN :
        LoadStockData(symbol, ans, reindexes)

Init == InitSync \/ InitCache \/ InitLoader

Next == NextSync \/ NextCache \/ NextLoader

Spec == Init /\ [][Next]_vars

----------------------------------------------------------------------------
(* Two batches against one world: sync_stock_data run with a symbol that   *)
(* fails on all attempts (run 1), then run again without it (run 2) from   *)
(* the same cache files. pair.api, pair.wr and pair.chk record what the    *)
(* provider, df.to_parquet and the cache check did for a symbol at its     *)
(* n-th call ("?": not asked yet); whatever was recorded is what the same  *)
(* call gets again.                                                         *)

Calls == 1..max_retries

\* the provider's answers in the two runs: a failure or a series (the retry
\* loop treats every kind of failure alike, FetchFromApiResult)
PairResponses == {"network_error", "ok"}

\* the cache files the two runs start from: none, or a fresh one
PairFiles ==
    {WithIndexFile(f) : f \in
        [Symbols -> {NoFile} \cup {[st |-> "fresh", df |-> d] : d \in CachedSeries}]}

Without(syms, f) == SelectSeq(syms, LAMBDA x : x # f)

InitPair ==
    /\ scene = "pair"
    /\ files \in PairFiles
    /\ sync_status = NoStatus
    /\ batch = NoBatch
    /\ tasks = <<>>
    /\ sem = max_concurrent
    /\ running = 0
    /\ cm = NoCm /\ loader = NoLoader /\ obs = NoObs
    /\ strategy_map = NoMap /\ pool_mgr = NoPoolMgr
    /\ \E f \in Symbols :
          /\ files[f].st # "fresh"
          /\ pair = [run |-> 0, failing |-> f, cache0 |-> files,
                     api |-> [k \in Symbols \X Calls |-> "?"],
                     wr |-> [k \in Symbols \X Calls |-> "?"],
                     chk |-> [s \in Symbols |-> "?"],
                     out1 |-> [results |-> NoResults, errors |-> NoErrors]]

\* run 1: a batch that holds the failing symbol
PairFirst(syms) ==
    /\ pair.run = 0
    /\ \E i \in DOMAIN syms : syms[i] = pair.failing
    /\ StartBatch(syms)
    /\ pair' = [pair EXCEPT !.run = 1]

\* run 2: the same batch without the failing symbol, on a service built anew
\* over the cache files run 1 started from
PairSecond ==
    /\ pair.run = 1
    /\ batch.pc = "returned"
    /\ pair' = [pair EXCEPT !.run = 2,
                            !.out1 = [results |-> batch.results,
                                      errors |-> batch.errors]]
    /\ files' = pair.cache0
    /\ sync_status' = NoStatus
    /\ batch' = [NoBatch EXCEPT !.pc = "gather", !.n = 1,
                                !.symbols = Without(batch.symbols, pair.failing)]
    /\ tasks' = [i \in 1..Len(Without(batch.symbols, pair.failing)) |-> NewTask]
    /\ sem' = max_concurrent
    /\ running' = 0
    /\ UNCHANGED <<scene, cm, loader, obs, strategy_map, pool_mgr>>

PairCheck(i, raises, m) ==
    /\ CheckCache(i, raises, m)
    /\ LET s == batch.symbols[i]
           r == IF raises THEN "raises" ELSE "looks"
       IN  /\ pair.chk[s] \in {"?", r}
           /\ s = pair.failing => ~raises
           /\ pair' = [pair EXCEPT !.chk[s] = r]

PairFetch(i, resp, d) ==
    /\ FetchFromApi(i, resp, d)
    /\ LET s == batch.symbols[i]
           k == <<s, tasks[i].calls + 1>>
       IN  /\ pair.api[k] \in {"?", resp}
           /\ pair' = [pair EXCEPT !.api[k] = resp]

PairSave(i, w) ==
    /\ SaveCache(i, w)
    /\ LET s == batch.symbols[i]
           k == <<s, tasks[i].calls>>
       IN  /\ pair.wr[k] \in {"?", w}
           /\ s = pair.failing => w # "written"
           /\ pair' = [pair EXCEPT !.wr[k] = w]

NextPair ==
    \/ \E syms \in SymbolLists : PairFirst(syms)
    \/ PairSecond
    \/ \E i \in 1..MaxSymbols : Acquire(i) /\ UNCHANGED pair
    \/ \E i \in 1..MaxSymbols, raises \in BOOLEAN, m \in ErrMsgs : PairCheck(i, raises, m)
    \/ \E i \in 1..MaxSymbols, resp \in PairResponses, d \in ProviderSeries : PairFetch(i, resp, d)
    \/ \E i \in 1..MaxSymbols, w \in WriteOutcomes : PairSave(i, w)
    \/ \E i \in 1..MaxSymbols : Wake(i) /\ UNCHANGED pair
    \/ \E i \in 1..MaxSymbols : Return(i) /\ UNCHANGED pair
    \/ pair.run > 0 /\ Gather /\ UNCHANGED pair

SpecPair == InitPair /\ [][NextPair]_vars

----------------------------------------------------------------------------
(* StrategyFactory (strategies/strategy_factory.py). _strategy_map is a     *)
(* dict: a sequence of entries in the order their codes were first          *)
(* registered. The display names of the built-in strategies are written    *)
(* "DualMA display" and "MACD display" here.                                 *)

BaseStrategy == "BaseStrategy"

\* issubclass(class_type, BaseStrategy): the built-in strategies (lines 9
\* and 5 of their modules), a strategy class of the caller, and object
StrategyClasses == {"DualMAStrategy", "MACDStrategy", "CustomStrategy"}
IsSubclass(c, base) == base = BaseStrategy /\ c \in StrategyClasses \cup {BaseStrategy}

StrategyEntry(name, class_type, display_name) ==
    [name |-> name, class_type |-> class_type, display_name |-> display_name]

\* lines 42-58: the map after __init__
BuiltIn ==
    << StrategyEntry("DualMA", "DualMAStrategy", "DualMA display"),
       StrategyEntry("MACD", "MACDStrategy", "MACD display") >>

\* what the caller registers: a code that is new, one that is registered,
\* one that is the display name of a registered strategy
RegisterCodes == {"Custom", "DualMA", "MACD display"}
RegisterDisplays == {"Custom display", "DualMA display", "MACD"}
RegisterClasses == {"CustomStrategy", "MACDStrategy", "object"}

\* what the caller asks for
LookupNames ==
    {"DualMA", "MACD", "Custom", "DualMA display", "MACD display",
     "Custom display", "NonexistentStrategy"}

CodeIndex(map, name) ==
    IF \E i \in DOMAIN map : map[i].name = name
    THEN CHOOSE i \in DOMAIN map : map[i].name = name
    ELSE 0

\* lines 75-77: the first entry, in the order of the dict, with the display name
DisplayIndex(map, name) ==
    IF \E i \in DOMAIN map : map[i].display_name = name
    THEN CHOOSE i \in DOMAIN map :
             /\ map[i].display_name = name
             /\ \A j \in 1..(i - 1) : map[j].display_name # name
    ELSE 0

\* a lookup by code alone
Lookup_CodeOnly(map, name) ==
    IF CodeIndex(map, name) # 0 THEN map[CodeIndex(map, name)].class_type
    ELSE "ValueError"

\* lines 70-89: the class of the code, else of the display name, else
\* ValueError is raised
Lookup(map, name) ==
    IF CodeIndex(map, name) # 0 THEN map[CodeIndex(map, name)].class_type
    ELSE IF DisplayIndex(map, name) # 0 THEN map[DisplayIndex(map, name)].class_type
    ELSE "ValueError"

\* line 104: self._strategy_map[name] = info
Put(map, e) ==
    IF CodeIndex(map, e.name) # 0 THEN [map EXCEPT ![CodeIndex(map, e.name)] = e]
    ELSE Append(map, e)

\* lines 60-89
GetStrategy(name) ==
    /\ scene = "factory"
    /\ obs' = [NoObs EXCEPT !.op = "get_strategy", !.key = name,
                            !.found = Lookup(strategy_map, name),
                            !.ok = (Lookup(strategy_map, name) # "ValueError")]
    /\ UNCHANGED <<scene, cm, loader, syncVars, pair, strategy_map, pool_mgr>>

\* lines 91-105: TypeError is raised for a class that is no strategy
RegisterStrategy(name, class_type, display_name) ==
    /\ scene = "factory"
    /\ IF IsSubclass(class_type, BaseStrategy)
       THEN /\ strategy_map' = Put(strategy_map,
                                   StrategyEntry(name, class_type, display_name))
            /\ obs' = [NoObs EXCEPT !.op = "register", !.key = name, !.ok = TRUE]
       ELSE /\ UNCHANGED strategy_map
            /\ obs' = [NoObs EXCEPT !.op = "register", !.key = name,
                                    !.found = "TypeError"]
    /\ UNCHANGED <<scene, cm, loader, syncVars, pair, pool_mgr>>

\* lines 129: the module's factory, initialised
InitFactory ==
    /\ scene = "factory"
    /\ strategy_map = BuiltIn
    /\ pool_mgr = NoPoolMgr
    /\ cm = NoCm /\ loader = NoLoader /\ obs = NoObs
    /\ files = [s \in AllSymbols |-> NoFile]
    /\ sync_status = NoStatus
    /\ batch = NoBatch
    /\ tasks = <<>>
    /\ sem = max_concurrent
    /\ running = 0
    /\ pair = NoPair

NextFactory ==
    \/ \E name \in LookupNames : GetStrategy(name)
    \/ \E name \in RegisterCodes, c \in RegisterClasses, d \in RegisterDisplays :
          RegisterStrategy(name, c, d)

SpecFactory == InitFactory /\ [][NextFactory]_vars

----------------------------------------------------------------------------
(* StockPoolManager (stock_pool_manager.py). self.pools maps a pool name   *)
(* to the dict of its symbols; a symbol's name, type and added_time play   *)
(* no part in the mutators and are left out.                                *)

PoolNames == {"core", "watch"}
\* the pool_name argument: create_pool refuses the empty name
PoolArgs == PoolNames \cup {""}

NoPool == [exists |-> FALSE, symbols |-> {}]
NoPools == [p \in PoolNames |-> NoPool]

\* pool_name in self.pools
HasPool(ps, p) == p \in PoolNames /\ ps[p].exists

\* lines 36-44: save_pools writes self.pools to the file and returns True,
\* or catches the error and returns False; a failed write leaves the file
\* as it was
SavePools(m, saves) == IF saves THEN [m EXCEPT !.file = m.pools] ELSE m

\* the mutators assign to self.pools first and save afterwards
Commit(m, ps, saves) == SavePools([m EXCEPT !.pools = ps], saves)

PoolObs(op, p, ok) == [NoObs EXCEPT !.op = op, !.key = p, !.ok = ok]

\* lines 46-65
CreatePool(p, saves) ==
    /\ scene = "pools"
    /\ IF p = "" \/ HasPool(pool_mgr.pools, p)
       THEN /\ UNCHANGED pool_mgr
            /\ obs' = PoolObs("create_pool", p, FALSE)
       ELSE /\ pool_mgr' = Commit(pool_mgr,
                                  [pool_mgr.pools EXCEPT ![p] =
                                      [exists |-> TRUE, symbols |-> {}]], saves)
            /\ obs' = PoolObs("create_pool", p, saves)
    /\ UNCHANGED <<scene, cm, loader, syncVars, pair, strategy_map>>

\* lines 67-81
DeletePool(p, saves) ==
    /\ scene = "pools"
    /\ IF ~HasPool(pool_mgr.pools, p)
       THEN /\ UNCHANGED pool_mgr
            /\ obs' = PoolObs("delete_pool", p, FALSE)
       ELSE /\ pool_mgr' = Commit(pool_mgr, [pool_mgr.pools EXCEPT ![p] = NoPool], saves)
            /\ obs' = PoolObs("delete_pool", p, saves)
    /\ UNCHANGED <<scene, cm, loader, syncVars, pair, strategy_map>>

\* lines 83-110
AddSymbol(p, symbol, saves) ==
    /\ scene = "pools"
    /\ IF ~HasPool(pool_mgr.pools, p) \/ symbol \in pool_mgr.pools[p].symbols
       THEN /\ UNCHANGED pool_mgr
            /\ obs' = PoolObs("add_symbol", p, FALSE)
       ELSE /\ pool_mgr' = Commit(pool_mgr,
                                  [pool_mgr.pools EXCEPT ![p].symbols = @ \cup {symbol}],
                                  saves)
            /\ obs' = PoolObs("add_symbol", p, saves)
    /\ UNCHANGED <<scene, cm, loader, syncVars, pair, strategy_map>>

\* lines 112-134: save_pools is called only when a symbol was deleted
DeleteSymbols(p, symbols, saves) ==
    /\ scene = "pools"
    /\ IF ~HasPool(pool_mgr.pools, p)
       THEN /\ UNCHANGED pool_mgr
            /\ obs' = PoolObs("delete_symbols", p, FALSE)
       ELSE LET del == {symbols[i] : i \in DOMAIN symbols} \cap pool_mgr.pools[p].symbols
            IN  IF del = {}
                THEN /\ UNCHANGED pool_mgr
                     /\ obs' = PoolObs("delete_symbols", p, FALSE)
                ELSE /\ pool_mgr' = Commit(pool_mgr,
                                           [pool_mgr.pools EXCEPT ![p].symbols = @ \ del],
                                           saves)
                     /\ obs' = PoolObs("delete_symbols", p, saves)
    /\ UNCHANGED <<scene, cm, loader, syncVars, pair, strategy_map>>

\* lines 25-34: the pools file of an earlier run, if there is one
LoadedPools == [NoPools EXCEPT !["core"] = [exists |-> TRUE, symbols |-> {"000001"}]]

\* lines 14-23
InitPools ==
    /\ scene = "pools"
    /\ \E ps \in {NoPools, LoadedPools} : pool_mgr = [pools |-> ps, file |-> ps]
    /\ strategy_map = NoMap
    /\ cm = NoCm /\ loader = NoLoader /\ obs = NoObs
    /\ files = [s \in AllSymbols |-> NoFile]
    /\ sync_status = NoStatus
    /\ batch = NoBatch
    /\ tasks = <<>>
    /\ sem = max_concurrent
    /\ running = 0
    /\ pair = NoPair

NextPools ==
    \/ \E p \in PoolArgs, saves \in BOOLEAN : CreatePool(p, saves)
    \/ \E p \in PoolArgs, saves \in BOOLEAN : DeletePool(p, saves)
    \/ \E p \in PoolArgs, symbol \in Symbols, saves \in BOOLEAN :
          AddSymbol(p, symbol, saves)
    \/ \E p \in PoolArgs, symbols \in SymbolLists, saves \in BOOLEAN :
          DeleteSymbols(p, symbols, saves)

SpecPools == InitPools /\ [][NextPools]_vars

----------------------------------------------------------------------------
(* The claims about DataSyncService. *)

SyncTasks == IF scene \in SyncScenes THEN DOMAIN tasks ELSE {}

\* the tasks of the batch that fetch symbol s
TasksOf(s) == {i \in SyncTasks : batch.symbols[i] = s}

\* C1: in every reachable state of a batch, the tasks inside
\* _fetch_stock_data (cache check, provider call, cache write, retry delay)
\* are at most max_concurrent.
C1_InFlightAtMostMaxConcurrent == Cardinality(InFlight) <= max_concurrent

\* every slot is taken (one of them by a task in its retry delay) while a
\* further task of the batch waits for the semaphore
C1_Witness ==
    /\ Cardinality(InFlight) = max_concurrent
    /\ \E i \in SyncTasks : tasks[i].pc = "sleep"
    /\ \E i \in SyncTasks : tasks[i].pc = "created"

\* C2: when the batch has returned, a symbol all of whose attempts failed
\* (its tasks returned None) is in the batch's error set, in
\* sync_status['errors'], and not in the success map.
C2_ExhaustedSymbolRecorded ==
    batch.pc = "returned" =>
        \A s \in Symbols :
            (TasksOf(s) # {} /\ \A i \in TasksOf(s) : tasks[i].res = "none")
            => /\ batch.errors[s] # ""
               /\ sync_status.errors[s] # ""
               /\ batch.results[s] = 0

\* C3: the batch call never raises, and when it returns every task has run
\* to its own end: each symbol whose task returned a series is in the
\* result, whatever the other tasks did.
C3_BatchAlwaysReturns ==
    /\ batch.pc # "raised"
    /\ batch.pc = "returned" =>
          \A i \in SyncTasks :
              /\ tasks[i].pc = "done"
              /\ tasks[i].res = "df" => batch.results[batch.symbols[i]] # 0

\* the batch returned although one task raised and another found no data,
\* or it returned a series beside a task that raised
C3_Witness ==
    /\ batch.pc = "returned"
    /\ \E i, j \in SyncTasks :
          /\ tasks[i].res = "exc"
          /\ tasks[j].res = "df"
          /\ batch.results[batch.symbols[j]] = tasks[j].val

\* C4: when both batches of a pair have returned, every symbol other than
\* the failing one has the same outcome in the batch without the failing
\* symbol as in the batch with it: the same series in the success map, the
\* same entry in the error set.
C4_OtherSymbolsUnaffected ==
    (scene = "pair" /\ pair.run = 2 /\ batch.pc = "returned") =>
        \A s \in Symbols \ {pair.failing} :
            /\ batch.results[s] = pair.out1.results[s]
            /\ batch.errors[s] = pair.out1.errors[s]

\* both batches returned, the first one holding the failing symbol before
\* another symbol that came out with a series
C4_Witness ==
    /\ scene = "pair" /\ pair.run = 2 /\ batch.pc = "returned"
    /\ pair.out1.results[pair.failing] = 0
    /\ \E s \in Symbols \ {pair.failing} : batch.results[s] # 0
    /\ \E k \in Symbols \X Calls : k[1] = pair.failing /\ pair.api[k] # "?"

\* C5: a task makes at most max_retries provider calls, makes no further
\* call once a call has yielded a non-empty series, and has made exactly
\* max_retries calls when it returns None without any call having yielded
\* a series.
C5_AttemptsStopAtFirstSeries ==
    \A i \in SyncTasks :
        LET t == tasks[i]
        IN  /\ t.calls <= max_retries
            /\ t.yielded # 0 => t.pc \in {"save", "return"}
            /\ (t.pc = "return" /\ t.res = "none" /\ t.yielded = 0)
               => t.calls = max_retries

\* C6: a task about to make a further provider call has waited retry_delay
\* since its last call, whatever made that call fail, and no task waits
\* after its last attempt.
C6_WaitBetweenAttempts ==
    \A i \in SyncTasks :
        LET t == tasks[i]
        IN  /\ (t.pc = "fetch" /\ t.calls >= 1) => t.waited
            /\ t.pc = "sleep" => t.attempt < max_retries - 1

C8_CacheHitNoProviderCall ==
    /\ \A i \in SyncTasks :
          /\ tasks[i].looked = "hit" =>
                /\ tasks[i].pc = "return" /\ tasks[i].res = "df"
                /\ tasks[i].val = files[batch.symbols[i]].df
                /\ tasks[i].calls = 0
          /\ (tasks[i].calls > 0 \/ tasks[i].pc \in {"fetch", "save", "sleep"}) =>
                tasks[i].looked \in {"miss", "unreadable"}
    /\ (scene = "cache" /\ obs.op = "fetch") =>
          /\ obs.hit => (obs.calls = 0 /\ obs.ok /\ obs.ret = GetIn(cm, obs.key, TRUE).ret)
          /\ obs.calls > 0 => ~obs.hit
    /\ (scene = "loader" /\ obs.op = "load") =>
          /\ obs.hit => (obs.calls = 0 /\ obs.ok /\ obs.ret = loader[obs.key])
          /\ obs.calls > 0 => ~obs.hit

\* a task of a batch of several has returned the series of a fresh cache
\* file while another task of the batch went to the provider
C8_Witness ==
    /\ scene = "sync"
    /\ \E i, j \in SyncTasks :
          /\ tasks[i].looked = "hit" /\ tasks[i].pc = "return" /\ tasks[i].val # 0
          /\ tasks[j].pc = "done" /\ tasks[j].res = "df" /\ batch.symbols[j] # batch.symbols[i]
          /\ files[batch.symbols[j]].df \in ProviderSeries

\* C9: a cache failure does not change a symbol's outcome: a task whose
\* provider call yielded a series returns that series whatever the cache
\* write did, a task that found an unreadable cache file goes on to the
\* provider, and a handler fetch whose provider call yielded a series
\* returns it whatever cache.set did.
C9_CacheFailureKeepsOutcome ==
    /\ \A i \in SyncTasks :
          /\ (tasks[i].pc = "return" /\ tasks[i].yielded # 0) =>
                (tasks[i].res = "df" /\ tasks[i].val = tasks[i].yielded)
          /\ (tasks[i].pc = "return" /\ tasks[i].looked = "unreadable") =>
                tasks[i].calls >= 1
    /\ (scene = "cache" /\ obs.op = "fetch" /\ obs.arg # NoneValue) =>
          (obs.ok /\ obs.ret = obs.arg)

\* C10: after a set that returned True with a ttl that has not elapsed, get
\* of the same key returns a value equal to the one that was set.
C10_GetAfterSetReturnsValue ==
    (scene = "cache" /\ obs.op = "set" /\ obs.ok /\ obs.live) =>
        GetIn(cm, obs.key, TRUE).ret = obs.arg

----------------------------------------------------------------------------
(* CacheManager: the index and the payload files.                          *)

\* the payload file at the path of the key's recorded kind
BackingFile(c, key) == c.files[key][c.index[key].type]

AllBacked(c) ==
    \A k \in Keys : c.index[k] # NoEntry => BackingFile(c, k) # NoCFile

\* C12: set, get, delete, clean_expired_cache and the cleanup cycle keep
\* every index entry backed by a file at the path of its recorded kind: a
\* step taken from a state where every entry is backed ends in such a
\* state, and a set whose payload write failed records no index entry.
C12_EntriesKeepBackingFile ==
    [][AllBacked(cm) =>
          /\ AllBacked(cm')
          /\ (obs'.op = "set" /\ ~obs'.ok /\ cm.index[obs'.key] = NoEntry)
                 => cm'.index[obs'.key] = NoEntry]_vars

C12_Witness ==
    /\ obs.op = "set"
    /\ ~obs.ok
    /\ cm.index[obs.key] = NoEntry
    /\ AllBacked(cm)
    /\ \E k \in Keys : cm.index[k] # NoEntry

\* C13: for every index entry the recorded size is the size of the payload
\* file at the path of its recorded kind, also after a set on an existing
\* key that failed part-way through writing.
C13_RecordedSizeIsFileSize ==
    scene = "cache" =>
        \A k \in Keys :
            cm.index[k] # NoEntry =>
                cm.index[k].size = FileSize(BackingFile(cm, k))

\* C14: every index entry recorded by set has expires_at strictly later
\* than created_at, whatever the ttl argument (omitted, zero or negative).
C14_ExpiresAfterCreated ==
    scene = "cache" =>
        \A k \in Keys :
            cm.index[k] # NoEntry =>
                cm.index[k].expires_at > cm.index[k].created_at

\* C15: set and delete return True only when the file operation and the
\* persisting of the index both succeeded; an error in either gives False.
C15_TrueOnlyIfIndexPersisted ==
    (scene = "cache" /\ obs.op \in {"set", "delete"} /\ obs.ok) => cm.saved

\* C16: a get on an indexed, unexpired key whose payload file is missing or
\* cannot be deserialized returns None, as a get on a key that is not in
\* the index does, and like it changes neither the index nor the files.
C16_UnreadableGetReturnsNone ==
    [][(obs'.op = "get" /\ Found(cm, obs'.key) \in {"absent", "missing", "unreadable"}) =>
          /\ obs'.ret = NoneValue
          /\ cm'.index = cm.index
          /\ cm'.files = cm.files]_vars

C16_Witness ==
    /\ obs.op = "get"
    /\ obs.found = "unreadable"
    /\ obs.ret = NoneValue
    /\ cm.index[obs.key] # NoEntry

\* the payload file of an indexed, unexpired key is missing at a get
C16_MissingFileWitness ==
    /\ obs.op = "get"
    /\ obs.found = "missing"
    /\ obs.ret = NoneValue

C18_CleanupEndsWithinMaxSize ==
    (scene = "cache" /\ obs.cleaned) => get_cache_size(cm) <= cm.max_size

\* a cycle has completed whose eviction loop started over the cap
C18_Witness ==
    /\ obs.cleaned
    /\ \E k \in Keys : obs.swept[k] # NoEntry /\ cm.index[k] = NoEntry
    /\ \E k \in Keys : cm.index[k] # NoEntry
    /\ get_cache_size(cm) <= cm.max_size

\* the entries the eviction loop of the last cleanup cycle removed, and
\* those it left
Evicted == {k \in Keys : obs.swept[k] # NoEntry /\ cm.index[k] = NoEntry}
Remaining == {k \in Keys : obs.swept[k] # NoEntry /\ cm.index[k] # NoEntry}

\* C19: the entries removed by size-eviction are the k entries created
\* earliest, k the smallest number that brings the total within max_size:
\* no evicted entry was created later than one that remains, and the last
\* of the evicted was still needed (with it the total is over max_size).
C19_EvictsEarliestUntilWithinCap ==
    (scene = "cache" /\ obs.cleaned) =>
        /\ \A e \in Evicted : \A r \in Remaining :
               obs.swept[e].created_at <= obs.swept[r].created_at
        /\ Evicted # {} =>
               \E e \in Evicted :
                   /\ \A e2 \in Evicted :
                          obs.swept[e2].created_at <= obs.swept[e].created_at
                   /\ get_cache_size(cm) + obs.swept[e].size > cm.max_size

\* an older entry was evicted and a newer one remains
C19_Witness ==
    /\ obs.cleaned
    /\ \E e \in Evicted : \E r \in Remaining :
           obs.swept[e].created_at < obs.swept[r].created_at

\* what a cleanup cycle run now would leave in the index
AfterCleanup(c) == EvictOldest(CleanExpired(c, c.order)).index

\* C20: a get that returns a value leaves every index entry (kind,
\* created_at, expires_at, size), the order of the entries and the
\* last-cleanup time as they were, so a cleanup run afterwards evicts what
\* it would have evicted without the read.
C20_GetHitLeavesIndexUnchanged ==
    [][(obs'.op = "get" /\ obs'.ret # NoneValue) =>
          /\ cm'.index = cm.index
          /\ cm'.order = cm.order
          /\ cm'.last_cleanup = cm.last_cleanup
          /\ AfterCleanup(cm') = AfterCleanup(cm)]_vars

\* a read of the older of two entries
C20_Witness ==
    /\ obs.op = "get"
    /\ obs.ret # NoneValue
    /\ \E k \in Keys :
           /\ cm.index[k] # NoEntry
           /\ cm.index[k].created_at > cm.index[obs.key].created_at

\* more than cleanup_interval has passed on the manager's clock since the
\* last cleanup check
IntervalElapsed(c) == current_time - c.last_cleanup > c.cleanup_interval

\* C21: a set that has written its entry runs a cleanup cycle in the same
\* call if and only if the cleanup interval has elapsed since the last
\* check: then no expired entry is left, the total is within max_size and
\* last_cleanup is the current time; otherwise every entry that was in the
\* index is still there, with the one just written, and last_cleanup is as
\* it was.
C21_CleanupIffIntervalElapsed ==
    [][(obs'.op = "set" /\ obs'.ok) =>
          IF IntervalElapsed(cm)
          THEN /\ obs'.cleaned
               /\ ExpiredKeys(cm') = {}
               /\ get_cache_size(cm') <= cm'.max_size
               /\ cm'.last_cleanup = current_time
          ELSE /\ ~obs'.cleaned
               /\ \A k \in Keys : cm.index[k] # NoEntry => cm'.index[k] # NoEntry
               /\ cm'.index[obs'.key] # NoEntry
               /\ cm'.last_cleanup = cm.last_cleanup]_vars

\* a set wrote an entry that was already expired and the cycle of the same
\* call swept it
C21_Witness ==
    /\ obs.op = "set"
    /\ obs.ok
    /\ ~obs.live
    /\ obs.cleaned
    /\ cm.index[obs.key] = NoEntry
    /\ cm.last_cleanup = current_time

\* no cycle ran: an expired entry is still in the index after a set
C21_NotDueWitness ==
    /\ obs.op = "set"
    /\ obs.ok
    /\ ~obs.cleaned
    /\ ExpiredKeys(cm) # {}

\* C22: the storage kind recorded for an entry is the tag the caller
\* supplied to set, never one derived from the type of the value.
C22_KindIsCallerTag ==
    (scene = "cache" /\ obs.stored /\ cm.index[obs.key] # NoEntry) =>
        cm.index[obs.key].type = obs.tag

\* C23: at most one payload file exists for a key across the kind
\* subdirectories.
C23_OneFilePerKey ==
    scene = "cache" =>
        \A k \in Keys : Cardinality({t \in Kinds : cm.files[k][t] # NoCFile}) <= 1

\* C24: after a fetch task whose set returned True the index holds the
\* entry of its key, in memory and as persisted.
C24_NoLostUpdate ==
    (scene = "cache" /\ obs.op = "fetch" /\ obs.stored /\ cm.cleanup_interval >= 0) =>
        (cm.index[obs.key] # NoEntry /\ cm.saved)

\* the entry's expires_at is earlier than the manager's current time
PastExpiry(e) == e # NoEntry /\ e.expires_at < current_time

C37_ClearEmptiesOrKeepsBacked ==
    [][(obs'.op = "clear") =>
          IF obs'.ok
          THEN /\ \A k \in Keys : cm'.index[k] = NoEntry
               /\ \A k \in Keys, t \in Kinds : cm'.files[k][t] = NoCFile
               /\ get_cache_size(cm') = 0
               /\ \A k \in Keys : GetIn(cm', k, TRUE).ret = NoneValue
          ELSE AllBacked(cm) => AllBacked(cm')]_vars

\* the part of C37 about a clear() that returned True
ClearThatSucceededEmpties ==
    [][(obs'.op = "clear" /\ obs'.ok) =>
          /\ \A k \in Keys : cm'.index[k] = NoEntry
          /\ \A k \in Keys, t \in Kinds : cm'.files[k][t] = NoCFile
          /\ get_cache_size(cm') = 0
          /\ \A k \in Keys : GetIn(cm', k, TRUE).ret = NoneValue]_vars

----------------------------------------------------------------------------
(* DataSyncService: the status kept across batches.                         *)

\* the step on which a batch completes
BatchCompletes == batch.pc = "gather" /\ batch'.pc = "returned"

\* C25: when a symbol that has an entry in sync_status['errors'] succeeds in
\* a later batch, its error entry is no longer present once that batch has
\* completed.
C25_SuccessClearsError ==
    [][BatchCompletes =>
          \A s \in AllSymbols :
              (sync_status.errors[s] # "" /\ batch'.results[s] # 0) =>
                  sync_status'.errors[s] = ""]_vars

\* the symbols of a list
InList(syms) == {syms[i] : i \in DOMAIN syms}

\* C35: a batch leaves unchanged the entry in sync_status['errors'] of every
\* symbol that is not in its symbol list.
C35_OtherSymbolsKeepError ==
    [][BatchCompletes =>
          \A s \in AllSymbols \ InList(batch.symbols) :
              sync_status'.errors[s] = sync_status.errors[s]]_vars

\* a batch that recorded an error of its own has completed, and a symbol
\* that was not in it has the error entry of an earlier batch
C35_Witness ==
    /\ scene = "sync"
    /\ batch.pc = "returned"
    /\ \E s \in InList(batch.symbols) : batch.errors[s] # ""
    /\ \E s \in AllSymbols \ InList(batch.symbols) : sync_status.errors[s] # ""

\* two tasks of the batch were created for one symbol
SameSymbol(i, j) == i # j /\ batch.symbols[i] = batch.symbols[j]

\* C36: when a symbol occurs more than once in the symbol list of a batch, at
\* most one of its tasks is inside _fetch_stock_data at any time, and no two
\* of its tasks have each obtained the series from the provider.
C36_OneFetchPerSymbol ==
    scene \in SyncScenes =>
        \A i, j \in DOMAIN tasks :
            SameSymbol(i, j) =>
                /\ ~(i \in InFlight /\ j \in InFlight)
                /\ ~(tasks[i].yielded # 0 /\ tasks[j].yielded # 0)

\* a request for the symbol made now is answered by the cache check of
\* lines 186-188, before any provider call
ServedFromCache(s) == CacheLookup(files[s]) # 0

\* C33: after a symbol has been fetched successfully in a batch, a later
\* request for it is served from the cache without a provider call: once
\* the batch has returned a series for the symbol, the cache file answers
\* the lookup, and a task that finds the file makes no provider call.
C33_FetchedThenServedFromCache ==
    scene \in SyncScenes =>
        /\ batch.pc = "returned" =>
               \A s \in AllSymbols : batch.results[s] # 0 => ServedFromCache(s)
        /\ \A i \in DOMAIN tasks : tasks[i].looked = "hit" => tasks[i].calls = 0

\* the loader's side of C33: a symbol in DataLoader.cache is returned from
\* it without a provider call
LoaderHitMakesNoProviderCall ==
    (scene = "loader" /\ obs.op = "load" /\ obs.hit) =>
        (obs.calls = 0 /\ obs.ret = loader[obs.key] /\ obs.ret # NoneValue)

\* C32: when every provider call returns, a batch that has started
\* eventually returns, with every task done, having returned a series,
\* returned None or raised, and every slot of the semaphore free again; a
\* task returns None only after max_retries provider calls.
C32_BatchEventuallyReturns ==
    /\ [](\A i \in DOMAIN tasks :
             (tasks[i].pc = "return" /\ tasks[i].res = "none")
                 => tasks[i].calls = max_retries)
    /\ (batch.pc = "gather") ~>
           (/\ batch.pc = "returned"
            /\ sem = Slots
            /\ \A i \in DOMAIN tasks :
                   tasks[i].pc = "done" /\ tasks[i].res \in {"df", "none", "exc"})

\* a batch has returned in which a task ended by an exception and another
\* after its last attempt, and every slot is free
C32_Witness ==
    /\ scene = "sync"
    /\ batch.pc = "returned"
    /\ sem = Slots
    /\ \E i, j \in DOMAIN tasks : tasks[i].res = "exc" /\ tasks[j].res = "none"

\* C26: sync_count grows by exactly one on every step that completes a
\* batch, the batches of sync_all_data included, and on no other step, so
\* that after n batches on a fresh status it equals n.
C26_CountIsNumberOfBatches ==
    [][sync_status'.sync_count =
          sync_status.sync_count + (IF BatchCompletes THEN 1 ELSE 0)]_vars

----------------------------------------------------------------------------
(* DataLoader: the provider chain and the resolver.                        *)

LoaderCall == scene = "loader" /\ obs.op = "load"

\* C27: load_stock_data calls the providers one at a time in the order
\* baostock, tushare, akshare: the i-th call of a load goes to the i-th
\* provider, it is made only when every earlier call of that load returned
\* no rows, and no call follows one that returned rows.
C27_ProvidersInChainOrder ==
    LoaderCall =>
        /\ Len(obs.chain) <= Len(Providers)
        /\ obs.calls = Len(obs.chain)
        /\ \A i \in DOMAIN obs.chain :
               /\ obs.chain[i].provider = Providers[i]
               /\ \A j \in 1..(i - 1) : ~obs.chain[j].rows

\* tushare answered after baostock had failed, and akshare was not asked
C27_Witness ==
    /\ LoaderCall
    /\ Len(obs.chain) = 2
    /\ ~obs.chain[1].rows
    /\ obs.chain[2].rows

\* C28: a series returned by load_stock_data holds the rows of one
\* provider: on a miss, of the provider called last, which is the first of
\* the chain that returned rows in that call; on a hit, the series cached by
\* an earlier call.
C28_SeriesOfFirstProviderThatSucceeded ==
    (LoaderCall /\ obs.ret # NoneValue) =>
        IF obs.hit
        THEN obs.chain = <<>> /\ obs.ret = loader[obs.key]
        ELSE /\ obs.chain # <<>>
             /\ obs.chain[Len(obs.chain)].rows
             /\ \A j \in 1..(Len(obs.chain) - 1) : ~obs.chain[j].rows
             /\ obs.ret = Reindex(ProviderFrame(obs.chain[Len(obs.chain)].provider))

\* several providers were tried and the series is that of the last one called
C28_Witness ==
    /\ LoaderCall
    /\ obs.ret # NoneValue
    /\ Len(obs.chain) = 3
    /\ obs.ret.body = "akshare"

\* C29: when every provider fails for a symbol, load_stock_data returns
\* None, and no series is returned or cached for the symbol.
C29_AllProvidersFailedGivesNone ==
    (LoaderCall /\ Len(obs.chain) = 3 /\ \A i \in 1..3 : ~obs.chain[i].rows) =>
        /\ obs.ret = NoneValue
        /\ ~obs.ok
        /\ loader[obs.key] = NoneValue

C29_Witness ==
    /\ LoaderCall
    /\ Len(obs.chain) = 3
    /\ \A i \in 1..3 : ~obs.chain[i].rows
    /\ obs.ret = NoneValue

\* lines 48-51: the first three characters of the symbol once the exchange
\* marks are removed
NumericPrefix(symbol) ==
    LET clean_symbol == Replace(Replace(symbol, "sh"), "sz")
    IN  IF clean_symbol = <<>> THEN "" ELSE clean_symbol[1]

\* C30: for a symbol whose three-character prefix (the exchange mark set
\* aside) is in the exchange table the resolver returns a non-empty address
\* for baostock, tushare and akshare; for any other symbol resolution fails,
\* and load_stock_data calls no provider and returns None.
C30_ResolverKnownPrefixOnly ==
    scene = "loader" =>
        /\ \A symbol \in LoaderSymbols :
              LET code == format_stock_code(symbol)
              IN  IF NumericPrefix(symbol) \in DOMAIN exchange_map
                  THEN code.ok /\ code.bs # <<>> /\ code.ts # <<>> /\ code.ak # <<>>
                  ELSE ~code.ok
        /\ (LoaderCall /\ NumericPrefix(obs.key) \notin DOMAIN exchange_map) =>
              (obs.chain = <<>> /\ obs.calls = 0 /\ obs.ret = NoneValue)
        /\ (LoaderCall /\ ~obs.hit /\ NumericPrefix(obs.key) \in DOMAIN exchange_map) =>
              obs.chain # <<>>

\* a load of a symbol with an unknown prefix
C30_Witness ==
    /\ LoaderCall
    /\ NumericPrefix(obs.key) \notin DOMAIN exchange_map
    /\ obs.chain = <<>>
    /\ obs.ret = NoneValue

----------------------------------------------------------------------------
(* StrategyFactory: the lookup.                                             *)

\* the entries a name denotes: by their code or by their display name
Denoted(map, name) ==
    {i \in DOMAIN map : map[i].name = name \/ map[i].display_name = name}

\* C31: get_strategy returns the registered class, a subclass of
\* BaseStrategy, for every name that is a registered code or a registered
\* display name (the class registered under the code when the name is a
\* code), and raises ValueError for every other name; the registry is never
\* empty after initialization.
C31_GetStrategyReturnsRegisteredClass ==
    scene = "factory" =>
        /\ Len(strategy_map) > 0
        /\ obs.op = "get_strategy" =>
              IF Denoted(strategy_map, obs.key) = {}
              THEN ~obs.ok /\ obs.found = "ValueError"
              ELSE /\ obs.ok
                   /\ IsSubclass(obs.found, BaseStrategy)
                   /\ \E i \in Denoted(strategy_map, obs.key) :
                          obs.found = strategy_map[i].class_type
                   /\ \A i \in DOMAIN strategy_map :
                          strategy_map[i].name = obs.key
                              => obs.found = strategy_map[i].class_type

\* a class registered by the caller was found by its display name
C31_Witness ==
    /\ scene = "factory"
    /\ obs.op = "get_strategy"
    /\ obs.key = "Custom display"
    /\ obs.found = "CustomStrategy"

\* a name that is neither a code nor a display name raised ValueError
C31_NotFoundWitness ==
    /\ scene = "factory"
    /\ obs.op = "get_strategy"
    /\ obs.key = "NonexistentStrategy"
    /\ obs.found = "ValueError"

----------------------------------------------------------------------------
(* StockPoolManager: the mutators.                                          *)

PoolMutators == {"create_pool", "delete_pool", "add_symbol", "delete_symbols"}

\* C38: a call of create_pool, delete_pool, add_symbol or delete_symbols
\* that reports failure leaves the pools in memory and their symbols as
\* they were, also when the failure is that the pools file could not be
\* saved.
C38_FailedMutatorChangesNothing ==
    [][(obs'.op \in PoolMutators /\ ~obs'.ok) =>
          pool_mgr'.pools = pool_mgr.pools]_vars

====
